---- MODULE Spec2Model ----
(***************************************************************************)
(* handsfreectl: the control client of the handsfree daemon.               *)
(*                                                                         *)
(* One behaviour of this module is one invocation of the client           *)
(* (src/main.rs): it connects once to the daemon's Unix socket, writes     *)
(* one newline-terminated JSON command and then either reads one response  *)
(* under a read timeout (send_command / receive_response) or, for Watch,   *)
(* reads an unbounded stream of responses (ResponseStream::next).          *)
(*                                                                         *)
(* Bytes on the socket are modelled as sequences of lexical tokens, so     *)
(* that framing (read_line, trim_end_matches), JSON encoding and JSON      *)
(* decoding are computed and not assumed.                                  *)
(***************************************************************************)
EXTENDS Integers, Sequences, FiniteSets, TLC

(***************************************************************************)
(* Bounds of the model and constants of the program.                       *)
(***************************************************************************)
\* events of a subscription: chunks the daemon sends plus read errors
MaxEvents == 3
\* chunks the daemon may send during a request/response call
MaxReply == 2
\* seconds the event stream is observed waiting for one line
MaxWait == 6
\* const READ_TIMEOUT_SECS: u64 = 5
READ_TIMEOUT_SECS == 5

(***************************************************************************)
(* Tokens: the alphabet of the byte streams and of the diagnostic texts.   *)
(***************************************************************************)
\* one of the JSON structural characters { } : ,
P(c) == [t |-> "punct", v |-> c]
\* a JSON string literal "s" (quotes included on the wire)
S(s) == [t |-> "str", v |-> s]
\* the JSON literal null
Null == [t |-> "null", v |-> "null"]
\* bytes that are no JSON token
Raw(s) == [t |-> "raw", v |-> s]
\* one space character
WS == [t |-> "ws", v |-> " "]
\* the line terminator '\n'
NL == [t |-> "nl", v |-> "\n"]
\* literal text of a format string
Txt(s) == [t |-> "text", v |-> s]

\* Display of a small unsigned integer ("{}" of a u64)
Digits == <<"0", "1", "2", "3", "4", "5", "6", "7", "8", "9">>
DisplayU64(n) == IF n \in 0..9 THEN Digits[n + 1] ELSE "many"

Ok(x) == [ok |-> TRUE, val |-> x]
Err(m) == [ok |-> FALSE, err |-> m]
\* Option<T> as a sequence of length at most one
None == <<>>
Some(x) == <<x>>

(***************************************************************************)
(* cli.rs: the user's commands.                                            *)
(***************************************************************************)
CliOutputMode == {"Keyboard", "Clipboard"}

Commands ==
    {[name |-> "Start", output |-> m] : m \in CliOutputMode}
    \cup {[name |-> "Toggle", output |-> o] :
             o \in {None} \cup {Some(m) : m \in CliOutputMode}}
    \cup {[name |-> n] : n \in {"Stop", "Status", "Watch", "Shutdown"}}

(***************************************************************************)
(* protocol.rs: commands and their JSON encoding.                          *)
(***************************************************************************)
\* #[serde(rename_all = "lowercase")] on CliOutputMode and DaemonCommand
Lowercase(s) ==
    CASE s = "Keyboard" -> "keyboard"
      [] s = "Clipboard" -> "clipboard"
      [] s = "Start" -> "start"
      [] s = "Stop" -> "stop"
      [] s = "Status" -> "status"
      [] s = "Shutdown" -> "shutdown"
      [] s = "Toggle" -> "toggle"
      [] s = "Subscribe" -> "subscribe"
      [] OTHER -> s

\* The DaemonCommand main builds for a cli command (main.rs match arms)
DaemonCommandOf(c) ==
    CASE c.name = "Start" -> [variant |-> "Start", output_mode |-> c.output]
      [] c.name = "Toggle" -> [variant |-> "Toggle", output_mode |-> c.output]
      [] c.name = "Watch" -> [variant |-> "Subscribe"]
      [] OTHER -> [variant |-> c.name]

\* Fields of a Toggle after the tag: the optional output_mode is left out
\* when None
ToggleFields(cmd) ==
    IF cmd.output_mode = None
    THEN <<>>
    ELSE <<P(","), S("output_mode"), P(":"), S(Lowercase(cmd.output_mode[1]))>>

\* serde_json::to_string(&DaemonCommand): internally tagged, tag "command"
to_string(cmd) ==
    <<P("{"), S("command"), P(":"), S(Lowercase(cmd.variant))>>
    \o (CASE cmd.variant = "Start" ->
                <<P(","), S("output_mode"), P(":"), S(Lowercase(cmd.output_mode))>>
          [] cmd.variant = "Toggle" -> ToggleFields(cmd)
          [] OTHER -> <<>>)
    \o <<P("}")>>

\* A faulty frame: the JSON text without the newline after it
command_json_with_newline_NoNewline(cmd) == to_string(cmd)

\* format!("{}\n", command_json)
command_json_with_newline(cmd) == to_string(cmd) \o <<NL>>

(***************************************************************************)
(* serde_json: recognising and reading JSON values in a token sequence.    *)
(* An index of 0 stands for "no such position" (a syntax error).           *)
(***************************************************************************)
IsTok(toks, i, tok) == i \in 1..Len(toks) /\ toks[i] = tok
IsStr(toks, i) == i \in 1..Len(toks) /\ toks[i].t = "str"

RECURSIVE ValueEnd(_, _), MembersEnd(_, _)
\* the index after the JSON value that starts at i
ValueEnd(toks, i) ==
    IF i \notin 1..Len(toks) THEN 0
    ELSE IF toks[i].t \in {"str", "null"} THEN i + 1
    ELSE IF toks[i] = P("{")
         THEN IF IsTok(toks, i + 1, P("}")) THEN i + 2
              ELSE MembersEnd(toks, i + 1)
    ELSE 0

\* the index after the closing brace of the object whose member starts at i
MembersEnd(toks, i) ==
    IF ~(IsStr(toks, i) /\ IsTok(toks, i + 1, P(":"))) THEN 0
    ELSE LET j == ValueEnd(toks, i + 2) IN
         IF j = 0 THEN 0
         ELSE IF IsTok(toks, j, P(",")) THEN MembersEnd(toks, j + 1)
         ELSE IF IsTok(toks, j, P("}")) THEN j + 1
         ELSE 0

RECURSIVE FindField(_, _, _)
\* the index of the value of member key in the (well-formed) object whose
\* members start at i, 0 when the object has no such member
FindField(toks, i, key) ==
    IF ~IsStr(toks, i) THEN 0
    ELSE IF toks[i].v = key THEN i + 2
    ELSE LET j == ValueEnd(toks, i + 2) IN
         IF IsTok(toks, j, P(",")) THEN FindField(toks, j + 1, key) ELSE 0

\* serde_json skips insignificant whitespace around tokens
SkipWhitespace(toks) == SelectSeq(toks, LAMBDA k : k.t # "ws")

(***************************************************************************)
(* protocol.rs: responses and their JSON decoding.                         *)
(***************************************************************************)
\* the parser's own message inside a decode error
ParseError(what) == Err(<<Txt(what)>>)

\* DaemonStatus { state: String, last_error: Option<String> } read from the
\* object whose opening brace is at i
DaemonStatusAt(toks, i) ==
    IF ~IsTok(toks, i, P("{")) THEN ParseError("invalid type: expected struct DaemonStatus")
    ELSE LET st == FindField(toks, i + 1, "state")
             le == FindField(toks, i + 1, "last_error")
         IN  IF st = 0 THEN ParseError("missing field state")
             ELSE IF ~IsStr(toks, st) THEN ParseError("invalid type: expected a string")
             ELSE IF le = 0 \/ toks[le] = Null
                  THEN Ok([state |-> toks[st].v, last_error |-> None])
             ELSE IF IsStr(toks, le)
                  THEN Ok([state |-> toks[st].v, last_error |-> Some(toks[le].v)])
             ELSE ParseError("invalid type: expected a string")

\* Status(DaemonStatus): a newtype variant of an internally tagged enum, so
\* the fields of the DaemonStatus are read from the object that holds the
\* tag; other members of that object are ignored
StatusVariant(toks) ==
    LET d == DaemonStatusAt(toks, 1) IN
    IF d.ok THEN Ok([variant |-> "Status", status |-> d.val]) ELSE d

\* StateChange { status }, as main.rs matches it: the DaemonStatus is the
\* value of the member status
StateChangeVariant(toks) ==
    LET f == FindField(toks, 2, "status") IN
    IF f = 0 THEN ParseError("missing field status")
    ELSE LET d == DaemonStatusAt(toks, f) IN
         IF d.ok THEN Ok([variant |-> "StateChange", status |-> d.val])
         ELSE d

\* Error { message: String }
ErrorVariant(toks) ==
    LET f == FindField(toks, 2, "message") IN
    IF f = 0 THEN ParseError("missing field message")
    ELSE IF ~IsStr(toks, f) THEN ParseError("invalid type: expected a string")
    ELSE Ok([variant |-> "Error", message |-> toks[f].v])

\* serde_json::from_str::<DaemonResponse>(line): internally tagged with
\* "response_type", variant names in snake_case
from_str(line) ==
    LET toks == SkipWhitespace(line) IN
    IF toks = <<>> THEN ParseError("EOF while parsing a value")
    ELSE IF toks[1].t \in {"str", "null"} /\ Len(toks) = 1
         THEN ParseError("invalid type: expected internally tagged enum DaemonResponse")
    ELSE IF toks[1] # P("{") \/ ValueEnd(toks, 1) # Len(toks) + 1
         THEN ParseError("syntax error")
    ELSE LET tag == FindField(toks, 2, "response_type") IN
         IF tag = 0 THEN ParseError("missing field response_type")
         ELSE IF ~IsStr(toks, tag) THEN ParseError("invalid type: expected variant identifier")
         ELSE IF toks[tag].v = "ack" THEN Ok([variant |-> "Ack"])
         ELSE IF toks[tag].v = "error" THEN ErrorVariant(toks)
         ELSE IF toks[tag].v = "status" THEN StatusVariant(toks)
         ELSE IF toks[tag].v = "state_change" THEN StateChangeVariant(toks)
         ELSE ParseError("unknown variant")

(***************************************************************************)
(* Framing: lines in a byte stream.                                        *)
(***************************************************************************)
HasNewline(bytes) == \E i \in 1..Len(bytes) : bytes[i] = NL

\* the length of the first line of bytes, terminator included
FirstLineLen(bytes) ==
    IF HasNewline(bytes)
    THEN CHOOSE i \in 1..Len(bytes) :
             bytes[i] = NL /\ \A j \in 1..(i - 1) : bytes[j] # NL
    ELSE Len(bytes)

\* AsyncBufReadExt::read_line on a stream holding bytes whose peer has or
\* has not closed: the bytes up to and including the first '\n', or all the
\* bytes left at end of file. It is pending (not enabled) otherwise.
ReadLineReady(bytes, closed) == HasNewline(bytes) \/ closed
read_line(bytes) == SubSeq(bytes, 1, FirstLineLen(bytes))
AfterLine(bytes) == SubSeq(bytes, FirstLineLen(bytes) + 1, Len(bytes))

RECURSIVE trim_end_matches(_, _)
\* str::trim_end_matches('\n'): every trailing terminator is removed
trim_end_matches(line, c) ==
    IF line # <<>> /\ line[Len(line)] = c
    THEN trim_end_matches(SubSeq(line, 1, Len(line) - 1), c)
    ELSE line

\* str::trim(): leading and trailing whitespace removed; a line of
\* whitespace alone trims to the empty string
RECURSIVE trim(_)
trim(line) ==
    IF line # <<>> /\ line[1].t \in {"ws", "nl"} THEN trim(Tail(line))
    ELSE IF line # <<>> /\ line[Len(line)].t \in {"ws", "nl"}
         THEN trim(SubSeq(line, 1, Len(line) - 1))
    ELSE line

\* a is an initial part of b
IsPrefix(a, b) == Len(a) <= Len(b) /\ a = SubSeq(b, 1, Len(a))
\* the number of occurrences of x in seq
Count(seq, x) == Len(SelectSeq(seq, LAMBDA o : o = x))

\* whether part occurs in text as a contiguous run
Contains(text, part) ==
    \E i \in 0..(Len(text) - Len(part)) :
        SubSeq(text, i + 1, i + Len(part)) = part

(***************************************************************************)
(* daemon.rs: the pure parts of receive_response and ResponseStream::next. *)
(***************************************************************************)
\* A faulty NoResponse: the message does not say how long the wait was
NoResponse_NoDuration(response_json) ==
    IF response_json = <<>>
    THEN Err(<<Txt("Connection closed by daemon or "), Txt("timeout"),
               Txt(" while waiting for response.")>>)
    ELSE Err(<<Txt("Timeout"), Txt(" reading response line.")>>)

\* The Ok(Ok(0)) | Err(_) arm of receive_response: end of file or timeout,
\* with response_json as the read left it
NoResponse(response_json) ==
    IF response_json = <<>>
    THEN Err(<<Txt("Connection closed by daemon or "), Txt("timeout"), Txt(" after "),
               Txt(DisplayU64(READ_TIMEOUT_SECS)),
               Txt(" seconds while waiting for response.")>>)
    ELSE Err(<<Txt("Timeout"), Txt(" after "), Txt(DisplayU64(READ_TIMEOUT_SECS)),
               Txt(" seconds reading response line.")>>)

\* A faulty ResponseOfLine: the decode error leaves the offending line out
ResponseOfLine_DropsLine(response_json) ==
    LET trimmed_response == trim_end_matches(response_json, NL) IN
    IF trimmed_response = <<>>
    THEN Err(<<Txt("Received empty response line from daemon.")>>)
    ELSE LET r == from_str(trimmed_response) IN
         IF r.ok THEN r
         ELSE Err(<<Txt("Failed to deserialize daemon response: ")>> \o r.err)

\* A faulty ResponseOfLine: the check for an empty line is missing
ResponseOfLine_NoEmptyCheck(response_json) ==
    LET trimmed_response == trim_end_matches(response_json, NL)
        r == from_str(trimmed_response)
    IN  IF r.ok THEN r
        ELSE Err(<<Txt("Failed to deserialize daemon response '")>>
                 \o trimmed_response \o <<Txt("': ")>> \o r.err)

\* The Ok(Ok(_)) arm of receive_response: a line of at least one byte
ResponseOfLine(response_json) ==
    LET trimmed_response == trim_end_matches(response_json, NL) IN
    IF trimmed_response = <<>>
    THEN Err(<<Txt("Received empty response line from daemon.")>>)
    ELSE LET r == from_str(trimmed_response) IN
         IF r.ok THEN r
         ELSE Err(<<Txt("Failed to deserialize daemon response '")>>
                  \o trimmed_response \o <<Txt("': ")>> \o r.err)

\* A faulty receive_response: end of file gets a message of its own
receive_response_EofDistinct(response_json) ==
    IF Len(response_json) = 0
    THEN Err(<<Txt("Connection closed by daemon while waiting for response.")>>)
    ELSE ResponseOfLine(response_json)

\* receive_response once read_line has returned Ok(n) with the line read
receive_response(response_json) ==
    IF Len(response_json) = 0
    THEN NoResponse(response_json)
    ELSE ResponseOfLine(response_json)

\* The Ok(Err(e)) arm of receive_response
ReadFailed == Err(<<Txt("Failed to read response from daemon: "), Txt("io error")>>)

\* A faulty next: the end of file is reported as a failed item
next_EofIsError(line) ==
    IF Len(line) = 0 THEN [kind |-> "item", item |-> Err(<<Txt("IO Error: "), Txt("eof")>>)]
    ELSE LET trimmed == trim_end_matches(line, NL) IN
         IF trim(trimmed) = <<>> THEN [kind |-> "skip"]
         ELSE LET r == from_str(trimmed) IN
              [kind |-> "item",
               item |-> IF r.ok THEN r
                        ELSE Err(<<Txt("Failed to deserialize: ")>> \o r.err
                                 \o <<Txt(" (Line: ")>> \o trimmed \o <<Txt(")")>>)]

\* A faulty next: only the empty line is skipped, a line of whitespace is
\* decoded
next_SkipsOnlyEmpty(line) ==
    IF Len(line) = 0 THEN [kind |-> "end"]
    ELSE LET trimmed == trim_end_matches(line, NL) IN
         IF trimmed = <<>> THEN [kind |-> "skip"]
         ELSE LET r == from_str(trimmed) IN
              [kind |-> "item",
               item |-> IF r.ok THEN r
                        ELSE Err(<<Txt("Failed to deserialize: ")>> \o r.err
                                 \o <<Txt(" (Line: ")>> \o trimmed \o <<Txt(")")>>)]

\* A faulty next: a malformed line ends the stream instead of yielding a
\* failed item
next_EndsOnMalformed(line) ==
    IF Len(line) = 0 THEN [kind |-> "end"]
    ELSE LET trimmed == trim_end_matches(line, NL) IN
         IF trim(trimmed) = <<>> THEN [kind |-> "skip"]
         ELSE LET r == from_str(trimmed) IN
              IF r.ok THEN [kind |-> "item", item |-> r] ELSE [kind |-> "end"]

\* One iteration of the loop of ResponseStream::next on the line read:
\* end of stream, a skipped blank line, or one item
next(line) ==
    IF Len(line) = 0 THEN [kind |-> "end"]
    ELSE LET trimmed == trim_end_matches(line, NL) IN
         IF trim(trimmed) = <<>> THEN [kind |-> "skip"]
         ELSE LET r == from_str(trimmed) IN
              [kind |-> "item",
               item |-> IF r.ok THEN r
                        ELSE Err(<<Txt("Failed to deserialize: ")>> \o r.err
                                 \o <<Txt(" (Line: ")>> \o trimmed \o <<Txt(")")>>)]

\* The Err(e) arm of ResponseStream::next
StreamIoError == Err(<<Txt("IO Error: "), Txt("io error")>>)

(***************************************************************************)
(* main.rs: what main prints and returns.                                  *)
(***************************************************************************)
Success == [code |-> "success", error |-> <<>>]
\* an anyhow error: the chain of messages, outermost context first
Failure(chain) == [code |-> "failure", error |-> chain]
Running == [code |-> "running", error |-> <<>>]

\* A faulty ConnectFailed: the check for the Status command is missing
ConnectFailed_AnyCommand(c, kind) ==
    IF kind \in {"NotFound", "ConnectionRefused"}
    THEN [out |-> <<<<Txt("Inactive")>>>>, exit |-> Success]
    ELSE [out |-> <<>>, exit |-> Failure(<<<<Txt("Connection Error")>>, <<Txt(kind)>>>>)]

\* A faulty ConnectFailed: the check of the error kind is missing
ConnectFailed_AnyKind(c, kind) ==
    IF c.name = "Status"
    THEN [out |-> <<<<Txt("Inactive")>>>>, exit |-> Success]
    ELSE [out |-> <<>>, exit |-> Failure(<<<<Txt("Connection Error")>>, <<Txt(kind)>>>>)]

\* The Err(e) arm of the connect match, for cli command c and error kind
ConnectFailed(c, kind) ==
    IF c.name = "Status" /\ kind \in {"NotFound", "ConnectionRefused"}
    THEN [out |-> <<<<Txt("Inactive")>>>>, exit |-> Success]
    ELSE [out |-> <<>>,
          exit |-> Failure(<<<<Txt("Connection Error: Failed to connect to daemon socket at "),
                               Txt("socket_path"), Txt(". Is the daemon running?")>>,
                             <<Txt(kind)>>>>)]

\* println! lines for a status: the state, then the last error if any
StatusLines(prefix, errPrefix, status) ==
    <<prefix \o <<Txt(status.state)>>>>
    \o (IF status.last_error = None THEN <<>>
        ELSE <<errPrefix \o <<Txt(status.last_error[1])>>>>)

\* The Commands::Status arm, on the result of send_command
StatusArm(result) ==
    IF ~result.ok
    THEN [out |-> <<>>, exit |-> Failure(<<<<Txt("Communication Error")>>, result.err>>)]
    ELSE IF result.val.variant = "Status"
         THEN [out |-> StatusLines(<<>>, <<>>, result.val.status), exit |-> Success]
    ELSE IF result.val.variant = "Error"
         THEN [out |-> <<>>,
               exit |-> Failure(<<<<Txt("Daemon Error: "), Txt(result.val.message)>>>>)]
    ELSE [out |-> <<>>, exit |-> Success]

\* A faulty catch-all arm: a response that is neither Ack, Status nor Error
\* is a failure
OtherArm_UnexpectedFails(result) ==
    IF ~result.ok
    THEN [out |-> <<>>, exit |-> Failure(<<<<Txt("Communication Error")>>, result.err>>)]
    ELSE IF result.val.variant \in {"Ack", "Status"}
         THEN [out |-> <<<<Txt("OK")>>>>, exit |-> Success]
    ELSE IF result.val.variant = "Error"
         THEN [out |-> <<>>,
               exit |-> Failure(<<<<Txt("Daemon Error: "), Txt(result.val.message)>>>>)]
    ELSE [out |-> <<>>, exit |-> Failure(<<<<Txt("Unexpected response")>>>>)]

\* The catch-all arm (Start, Stop, Shutdown, Toggle), on the result of
\* send_command
OtherArm(result) ==
    IF ~result.ok
    THEN [out |-> <<>>, exit |-> Failure(<<<<Txt("Communication Error")>>, result.err>>)]
    ELSE IF result.val.variant \in {"Ack", "Status"}
         THEN [out |-> <<<<Txt("OK")>>>>, exit |-> Success]
    ELSE IF result.val.variant = "Error"
         THEN [out |-> <<>>,
               exit |-> Failure(<<<<Txt("Daemon Error: "), Txt(result.val.message)>>>>)]
    ELSE [out |-> <<>>, exit |-> Success]

\* A faulty AfterCall: an Error response falls into the arm of the
\* unexpected responses
AfterCall_ErrorIgnored(c, result) ==
    IF result.ok /\ result.val.variant = "Error"
    THEN [out |-> <<>>, exit |-> Success]
    ELSE IF c.name = "Status" THEN StatusArm(result) ELSE OtherArm(result)

\* main after send_command returned `result` for cli command c
AfterCall(c, result) == IF c.name = "Status" THEN StatusArm(result) ELSE OtherArm(result)

\* The body of the Watch loop for one item: the lines printed
WatchLines(item) ==
    IF item.ok /\ item.val.variant \in {"StateChange", "Status"}
    THEN StatusLines(<<Txt("State changed: ")>>, <<Txt("Error: ")>>, item.val.status)
    ELSE <<>>

\* A failed write_all or flush inside send_command / send_command_only, as
\* main turns it into the invocation's error
SendFailed(c, what) ==
    LET e == <<Txt(what), Txt("io error")>> IN
    IF c.name = "Watch"
    THEN Failure(<<<<Txt("Failed to send subscribe command")>>, e>>)
    ELSE Failure(<<<<Txt("Communication Error")>>, e>>)

(***************************************************************************)
(* What the daemon may send: whole frames, blank lines, garbage, and an    *)
(* unterminated fragment.                                                  *)
(***************************************************************************)
AckFrame == <<P("{"), S("response_type"), P(":"), S("ack"), P("}")>>
StatusFrame ==
    <<P("{"), S("response_type"), P(":"), S("status"), P(","), S("state"), P(":"),
      S("idle"), P(","), S("last_error"), P(":"), Null, P("}")>>
StateChangeFrame ==
    <<P("{"), S("response_type"), P(":"), S("state_change"), P(","), S("status"), P(":"),
      P("{"), S("state"), P(":"), S("error"), P(","), S("last_error"), P(":"),
      S("Model failed"), P("}"), P("}")>>
ErrorFrame ==
    <<P("{"), S("response_type"), P(":"), S("error"), P(","), S("message"), P(":"),
      S("Invalid command"), P("}")>>
InvalidJson == <<P("{"), Raw("invalid_json"), P("}")>>
Fragment == <<P("{"), S("response_type")>>

DaemonChunks ==
    {f \o <<NL>> : f \in {AckFrame, StatusFrame, StateChangeFrame, ErrorFrame,
                          InvalidJson, <<>>, <<WS>>}}
    \cup {Fragment}

\* Lines a daemon may answer one request with: a status in the shape of
\* protocol.rs (the fields beside the tag) and in the shape of the wire
\* protocol (the fields in a member status), for several states and errors
StatusStates == {"idle", "listening", "error"}
LastErrors == {Null, S("Model failed"), S("No microphone")}
StatusMembers(st, le) == <<S("state"), P(":"), S(st), P(","), S("last_error"), P(":"), le>>
FlatStatusLine(st, le) ==
    <<P("{"), S("response_type"), P(":"), S("status"), P(",")>> \o StatusMembers(st, le)
    \o <<P("}")>>
NestedStatusLine(tag, st, le) ==
    <<P("{"), S("response_type"), P(":"), S(tag), P(","), S("status"), P(":"), P("{")>>
    \o StatusMembers(st, le) \o <<P("}"), P("}")>>
ResponseLines ==
    {AckFrame, ErrorFrame, InvalidJson}
    \cup {FlatStatusLine(st, le) : st \in StatusStates, le \in LastErrors}
    \cup {NestedStatusLine(tag, st, le) :
             tag \in {"status", "state_change"}, st \in StatusStates, le \in LastErrors}

(***************************************************************************)
(* daemon.rs: get_socket_path and connect_to_daemon.                       *)
(***************************************************************************)
\* values of XDG_RUNTIME_DIR and of the user id the model draws from
\* (a path is its text, cut at the separators; the variable may be set to
\* the empty string or end with a separator)
Sep == Txt("/")
RunUser == <<Sep, Txt("run"), Sep, Txt("user"), Sep, Txt("1000")>>
TmpXdgSlash == <<Sep, Txt("tmp"), Sep, Txt("xdg"), Sep>>
RuntimeDirs == {RunUser, TmpXdgSlash, <<>>}
Uids == {0, 7, 1000, 65534}
\* what may be at the socket path
SocketFiles == {"absent", "stale", "denied", "listening"}

RECURSIVE Decimal(_)
\* "{}" of an unsigned integer, digit by digit
Decimal(n) ==
    IF n < 10 THEN <<Txt(Digits[n + 1])>>
    ELSE Decimal(n \div 10) \o <<Txt(Digits[(n % 10) + 1])>>

\* Path::join of a relative name: a separator is put in unless the path is
\* empty or ends with one
join(path, name) ==
    IF path = <<>> \/ path[Len(path)] = Sep THEN path \o <<Txt(name)>>
    ELSE path \o <<Sep, Txt(name)>>

\* A faulty create: like fs::create_dir, it fails when the directory exists
create_dir_all_FailsIfExists(entry, writable) ==
    IF entry = "absent" /\ writable THEN [ok |-> TRUE, entry |-> "dir"]
    ELSE [ok |-> FALSE, entry |-> entry]

\* fs::create_dir_all(<runtime dir>/handsfree): fine when the directory is
\* there or can be made, an error when a file is in the way or the runtime
\* directory cannot be written
create_dir_all(entry, writable) ==
    IF entry = "dir" THEN [ok |-> TRUE, entry |-> "dir"]
    ELSE IF entry = "absent" /\ writable THEN [ok |-> TRUE, entry |-> "dir"]
    ELSE [ok |-> FALSE, entry |-> entry]

\* The fallback of get_socket_path: /tmp/handsfree-<uid>.sock
FallbackPath(u) == <<Txt("/tmp/handsfree-")>> \o Decimal(u) \o <<Txt(".sock")>>

\* A faulty resolver: a directory that cannot be made is an error
get_socket_path_FailsOnCreateError(xdg, entry, writable, u) ==
    IF xdg = None THEN Ok(<<Txt("/tmp/handsfree-")>> \o Decimal(u) \o <<Txt(".sock")>>)
    ELSE IF create_dir_all(entry, writable).ok
    THEN Ok(join(join(xdg[1], "handsfree"), "daemon.sock"))
    ELSE Err(<<Txt("Failed to create runtime directory")>>)

\* get_socket_path for the environment given: the Result it returns
get_socket_path(xdg, entry, writable, u) ==
    IF xdg # None /\ create_dir_all(entry, writable).ok
    THEN Ok(join(join(xdg[1], "handsfree"), "daemon.sock"))
    ELSE Ok(FallbackPath(u))

\* UnixStream::connect(socket_path) for what is at the path
UnixStreamConnect(file) ==
    CASE file = "listening" -> "Connected"
      [] file = "absent" -> "NotFound"
      [] file = "stale" -> "ConnectionRefused"
      [] OTHER -> "PermissionDenied"

\* A faulty connect: the error is replaced by one of kind Other
ConnectResult_Other(r) == IF r = "Connected" THEN r ELSE "Other"

\* The match of connect_to_daemon on what UnixStream::connect returned:
\* Ok(stream) => Ok(stream), Err(e) => Err(e)
ConnectResult(r) == r

\* the outcomes of UnixStream::connect
ConnectOutcomes == {"Connected", "NotFound", "ConnectionRefused", "PermissionDenied"}

(***************************************************************************)
(* State.                                                                  *)
(***************************************************************************)
VARIABLES
    xdgRuntimeDir,      \* the environment variable XDG_RUNTIME_DIR, if set
    handsfreeEntry,     \* what is at <runtime dir>/handsfree: absent, dir, file
    runtimeDirWritable, \* whether entries can be created in the runtime dir
    uid,                \* the numeric id of the calling user
    socketFile,         \* what is at the socket path: absent, stale, denied, listening
    socket_path,        \* the path get_socket_path returned, if it has
    sendError,          \* the step of sending the frame that failed, if any
    command,     \* the cli command of this invocation
    pc,          \* where main is: connect, write, flush, read, next, done
    connectOutcome, \* what the one connect attempt returned
    ops,         \* the operations performed on the socket so far, in order
    outbound,    \* the bytes the client has written to the socket
    inbound,     \* the bytes the daemon has sent that the client has not read
    consumed,    \* the bytes the client has read
    sent,        \* the number of chunks the daemon has sent
    peerClosed,  \* the daemon has closed its end
    clock,       \* seconds the current read has been pending
    readOutcome, \* how the read of receive_response ended
    result,      \* what send_command returned, if it has
    items,       \* what ResponseStream::next has returned so far, in order
    ioErrors,    \* the number of read errors the event stream has met
    stdout,      \* the lines printed
    exit         \* what main returned

\* the part of the state that only get_socket_path may change
environment == <<xdgRuntimeDir, handsfreeEntry, runtimeDirWritable, uid, socketFile>>

vars == <<environment, socket_path, sendError, command, pc, connectOutcome, ops, outbound, inbound, consumed, sent, peerClosed, clock,
          readOutcome, result, items, ioErrors, stdout, exit>>

\* the state of main before its first step, the environment apart
Started ==
    /\ command \in Commands
    /\ pc = "resolve"
    /\ socket_path = None
    /\ sendError = "none"
    /\ connectOutcome = "none"
    /\ ops = <<>>
    /\ outbound = <<>>
    /\ inbound = <<>>
    /\ consumed = <<>>
    /\ sent = 0
    /\ peerClosed = FALSE
    /\ clock = 0
    /\ readOutcome = "none"
    /\ result = None
    /\ items = <<>>
    /\ ioErrors = 0
    /\ stdout = <<>>
    /\ exit = Running

\* One invocation in the usual degraded environment (no runtime directory),
\* with anything at the socket path
Init ==
    /\ xdgRuntimeDir = None
    /\ handsfreeEntry = "absent"
    /\ runtimeDirWritable = TRUE
    /\ uid \in {1000}
    /\ socketFile \in SocketFiles
    /\ Started

\* One invocation in any environment, with the daemon listening
ResolverInit ==
    /\ xdgRuntimeDir \in {None} \cup {Some(d) : d \in RuntimeDirs}
    /\ handsfreeEntry \in {"absent", "dir", "file"}
    /\ runtimeDirWritable \in BOOLEAN
    /\ uid \in Uids
    /\ socketFile = "listening"
    /\ Started

\* A request/response call whose frame is written and flushed, with one line
\* of the daemon's waiting to be read
DecodeInit ==
    /\ xdgRuntimeDir = None
    /\ handsfreeEntry = "absent"
    /\ runtimeDirWritable = TRUE
    /\ uid = 1000
    /\ socketFile = "listening"
    /\ socket_path = Some(FallbackPath(1000))
    /\ sendError = "none"
    /\ command \in {c \in Commands : c.name # "Watch"}
    /\ pc = "read"
    /\ connectOutcome = "Connected"
    /\ ops = <<"connect", "write", "flush">>
    /\ outbound = command_json_with_newline(DaemonCommandOf(command))
    /\ inbound \in {l \o <<NL>> : l \in ResponseLines}
    /\ consumed = <<>>
    /\ sent = 1
    /\ peerClosed = FALSE
    /\ clock = 0
    /\ readOutcome = "none"
    /\ result = None
    /\ items = <<>>
    /\ ioErrors = 0
    /\ stdout = <<>>
    /\ exit = Running

\* One invocation of a command other than Watch
CallInit == Init /\ command.name # "Watch"

Connected == pc \in {"write", "flush", "read", "next"}

(***************************************************************************)
(* The daemon and the passage of time.                                     *)
(***************************************************************************)
\* the daemon sends once the command is on its way: a reply, or events pushed
\* before and after the client starts to read
DaemonSend ==
    /\ pc \in {"flush", "read", "next"} /\ ~peerClosed
    /\ sent + ioErrors < (IF command.name = "Watch" THEN MaxEvents ELSE MaxReply)
    /\ \E chunk \in DaemonChunks : inbound' = inbound \o chunk
    /\ sent' = sent + 1
    /\ UNCHANGED <<environment, socket_path, sendError, command, connectOutcome, pc, ops, outbound, consumed, peerClosed, clock, readOutcome,
                   result, items, ioErrors, stdout, exit>>

DaemonClose ==
    /\ Connected /\ ~peerClosed
    /\ peerClosed' = TRUE
    /\ UNCHANGED <<environment, socket_path, sendError, command, connectOutcome, pc, ops, outbound, inbound, consumed, sent, clock,
                   readOutcome, result, items, ioErrors, stdout, exit>>

\* A second passes while a read is pending. The timer of receive_response
\* fires at READ_TIMEOUT_SECS; the event stream has no timer.
Tick ==
    /\ pc \in {"read", "next"}
    /\ ~ReadLineReady(inbound, peerClosed)
    /\ clock < (IF pc = "read" THEN READ_TIMEOUT_SECS ELSE MaxWait)
    /\ clock' = clock + 1
    /\ UNCHANGED <<environment, socket_path, sendError, command, connectOutcome, pc, ops, outbound, inbound, consumed, sent, peerClosed,
                   readOutcome, result, items, ioErrors, stdout, exit>>

(***************************************************************************)
(* main: the socket path, then connect.                                    *)
(***************************************************************************)
\* let socket_path = get_socket_path().context(..)?: the directory is made
\* when it can be, and main goes on to connect or returns the error
main_get_socket_path ==
    /\ pc = "resolve"
    /\ LET r == get_socket_path(xdgRuntimeDir, handsfreeEntry, runtimeDirWritable, uid) IN
       /\ handsfreeEntry' = IF xdgRuntimeDir # None
                            THEN create_dir_all(handsfreeEntry, runtimeDirWritable).entry
                            ELSE handsfreeEntry
       /\ IF r.ok
          THEN /\ socket_path' = Some(r.val)
               /\ pc' = "connect"
               /\ UNCHANGED exit
          ELSE /\ pc' = "done"
               /\ exit' = Failure(<<<<Txt("Error determining socket path")>>, r.err>>)
               /\ UNCHANGED socket_path
    /\ UNCHANGED <<xdgRuntimeDir, runtimeDirWritable, uid, socketFile, sendError, command,
                   connectOutcome, ops, outbound, inbound, consumed, sent, peerClosed, clock,
                   readOutcome, result, items, ioErrors, stdout>>

\* A faulty main: a failed connect is tried a second time
connect_to_daemon_Retries ==
    /\ pc = "connect"
    /\ ops' = Append(ops, "connect")
    /\ \E r \in ConnectOutcomes :
          /\ r = UnixStreamConnect(socketFile)
          /\ connectOutcome' = r
          /\ IF r = "Connected"
             THEN /\ pc' = "write"
                  /\ UNCHANGED <<stdout, exit>>
             ELSE IF Count(ops, "connect") = 0
             THEN UNCHANGED <<pc, stdout, exit>>
             ELSE /\ pc' = "done"
                  /\ stdout' = stdout \o ConnectFailed(command, r).out
                  /\ exit' = ConnectFailed(command, r).exit
    /\ UNCHANGED <<environment, socket_path, sendError, command, outbound, inbound,
                   consumed, sent, peerClosed, clock, readOutcome, result, items, ioErrors>>

\* connect_to_daemon and the match on its result in main
connect_to_daemon ==
    /\ pc = "connect"
    /\ ops' = Append(ops, "connect")
    /\ \E r \in ConnectOutcomes, outcome \in {ConnectResult(UnixStreamConnect(socketFile))} :
          /\ r = UnixStreamConnect(socketFile)
          /\ connectOutcome' = outcome
          /\ IF outcome = "Connected"
             THEN /\ pc' = "write"
                  /\ UNCHANGED <<stdout, exit>>
             ELSE /\ pc' = "done"
                  /\ stdout' = stdout \o ConnectFailed(command, outcome).out
                  /\ exit' = ConnectFailed(command, outcome).exit
    /\ UNCHANGED <<environment, socket_path, sendError, command, outbound, inbound, consumed, sent, peerClosed, clock,
                   readOutcome, result, items, ioErrors>>

(***************************************************************************)
(* send_command and send_command_only: write_all, then flush.              *)
(***************************************************************************)
\* A faulty send_command: the read starts right after write_all, the flush
\* is skipped
write_all_SkipsFlush ==
    /\ pc = "write"
    /\ ops' = Append(ops, "write")
    /\ outbound' = outbound \o command_json_with_newline(DaemonCommandOf(command))
    /\ pc' = IF command.name = "Watch" THEN "next" ELSE "read"
    /\ UNCHANGED <<environment, socket_path, sendError, command, connectOutcome, inbound, consumed, sent, peerClosed, clock,
                   readOutcome, result, items, ioErrors, stdout, exit>>

\* write_all of the framed command; a failed write may have written a
\* prefix of the frame
write_all ==
    /\ pc = "write"
    /\ ops' = Append(ops, "write")
    /\ LET frame == command_json_with_newline(DaemonCommandOf(command)) IN
       \/ /\ outbound' = outbound \o frame
          /\ pc' = "flush"
          /\ UNCHANGED <<exit, sendError>>
       \/ /\ \E n \in {0, 1} : outbound' = outbound \o SubSeq(frame, 1, n)
          /\ pc' = "done"
          /\ sendError' = "write"
          /\ exit' = SendFailed(command, "Failed to write command to socket: ")
    /\ UNCHANGED <<environment, socket_path, command, connectOutcome, inbound, consumed, sent, peerClosed, clock, readOutcome,
                   result, items, ioErrors, stdout>>

\* A faulty main: Watch sends Subscribe with send_command, which waits for a
\* response before the stream is built
flush_AwaitsResponse ==
    /\ pc = "flush"
    /\ ops' = Append(ops, "flush")
    /\ pc' = "read"
    /\ clock' = 0
    /\ UNCHANGED <<environment, socket_path, sendError, command, connectOutcome, outbound, inbound, consumed, sent, peerClosed,
                   readOutcome, result, items, ioErrors, stdout, exit>>

\* A faulty flush: its error is dropped and the client goes on to read
flush_IgnoresError ==
    /\ pc = "flush"
    /\ ops' = Append(ops, "flush")
    /\ pc' = IF command.name = "Watch" THEN "next" ELSE "read"
    /\ sendError' \in {"none", "flush"}
    /\ clock' = 0
    /\ UNCHANGED <<environment, socket_path, command, connectOutcome, outbound, inbound,
                   consumed, sent, peerClosed, readOutcome, result, items, ioErrors, stdout,
                   exit>>

\* flush; then send_command goes on to receive_response, while
\* send_command_only returns and main builds the ResponseStream
flush ==
    /\ pc = "flush"
    /\ ops' = Append(ops, "flush")
    /\ \/ /\ pc' = IF command.name = "Watch" THEN "next" ELSE "read"
          /\ UNCHANGED <<exit, sendError>>
       \/ /\ pc' = "done"
          /\ sendError' = "flush"
          /\ exit' = SendFailed(command, "Failed to flush socket: ")
    /\ clock' = 0
    /\ UNCHANGED <<environment, socket_path, command, connectOutcome, outbound, inbound, consumed, sent, peerClosed, readOutcome,
                   result, items, ioErrors, stdout>>

(***************************************************************************)
(* receive_response: one read_line under the read timeout, and main's      *)
(* match on what send_command returns.                                     *)
(***************************************************************************)
\* send_command returns r to main, which prints and returns
ReturnToMain(r, how) ==
    /\ result' = Some(r)
    /\ readOutcome' = how
    /\ stdout' = stdout \o AfterCall(command, r).out
    /\ exit' = AfterCall(command, r).exit
    /\ pc' = "done"
    /\ ops' = Append(ops, "read")

\* read_line returns Ok(n): a line, or end of file
receive_response_read ==
    /\ pc = "read"
    /\ ReadLineReady(inbound, peerClosed)
    /\ LET response_json == read_line(inbound) IN
       /\ consumed' = consumed \o response_json
       /\ inbound' = AfterLine(inbound)
       /\ ReturnToMain(receive_response(response_json),
                       IF Len(response_json) = 0 THEN "eof" ELSE "line")
    /\ UNCHANGED <<environment, socket_path, sendError, command, connectOutcome, outbound, sent, peerClosed, clock, items, ioErrors>>

\* A faulty event stream: its read is under the read timeout too
receive_response_timeout_AnyRead ==
    /\ pc \in {"read", "next"}
    /\ ~ReadLineReady(inbound, peerClosed)
    /\ clock = READ_TIMEOUT_SECS
    /\ ReturnToMain(NoResponse(<<>>), "timeout")
    /\ UNCHANGED <<environment, socket_path, sendError, command, connectOutcome, outbound,
                   inbound, consumed, sent, peerClosed, clock, items, ioErrors>>

\* A faulty receive_response: when the timer fires the read is started again
receive_response_timeout_Rearms ==
    /\ pc = "read"
    /\ ~ReadLineReady(inbound, peerClosed)
    /\ clock = READ_TIMEOUT_SECS
    /\ clock' = 0
    /\ UNCHANGED <<environment, socket_path, sendError, command, connectOutcome, outbound,
                   inbound, consumed, sent, peerClosed, items, ioErrors, pc, ops, result,
                   readOutcome, stdout, exit>>

\* the timer fires before read_line has a line: Err(_) of timeout(); what an
\* abandoned read_line leaves in response_json is the library's business
receive_response_timeout ==
    /\ pc = "read"
    /\ ~ReadLineReady(inbound, peerClosed)
    /\ clock = READ_TIMEOUT_SECS
    /\ \E response_json \in {<<>>, inbound} :
          ReturnToMain(NoResponse(response_json), "timeout")
    /\ UNCHANGED <<environment, socket_path, sendError, command, connectOutcome, outbound, inbound, consumed, sent, peerClosed, clock, items,
                   ioErrors>>

\* A faulty receive_response: after a first read error the line is read again
receive_response_io_error_Retries ==
    /\ pc = "read"
    /\ IF Count(ops, "read") = 0
       THEN /\ ops' = Append(ops, "read")
            /\ UNCHANGED <<result, readOutcome, stdout, exit, pc>>
       ELSE ReturnToMain(ReadFailed, "ioerror")
    /\ UNCHANGED <<environment, socket_path, sendError, command, connectOutcome, outbound,
                   inbound, consumed, sent, peerClosed, clock, items, ioErrors>>

\* read_line returns Err(e)
receive_response_io_error ==
    /\ pc = "read"
    /\ ReturnToMain(ReadFailed, "ioerror")
    /\ UNCHANGED <<environment, socket_path, sendError, command, connectOutcome, outbound, inbound, consumed, sent, peerClosed, clock, items,
                   ioErrors>>

(***************************************************************************)
(* ResponseStream::next and the Watch loop of main.                        *)
(***************************************************************************)
\* A faulty stream: each call of next reads through a new buffer, and what
\* the old one held beyond the line is lost
next_read_DropsBuffered ==
    /\ pc = "next"
    /\ ReadLineReady(inbound, peerClosed)
    /\ LET line == read_line(inbound)
           step == next(line)
       IN  /\ consumed' = consumed \o line
           /\ inbound' = <<>>
           /\ ops' = Append(ops, "read")
           /\ CASE step.kind = "end" ->
                     /\ pc' = "done"
                     /\ exit' = Success
                     /\ UNCHANGED <<items, stdout>>
                [] step.kind = "skip" ->
                     UNCHANGED <<pc, exit, items, stdout>>
                [] OTHER ->
                     /\ items' = Append(items, step.item)
                     /\ stdout' = stdout \o WatchLines(step.item)
                     /\ UNCHANGED <<pc, exit>>
    /\ clock' = 0
    /\ UNCHANGED <<environment, socket_path, sendError, command, connectOutcome, outbound,
                   sent, peerClosed, readOutcome, result, ioErrors>>

\* A faulty Watch loop: an Error response of the daemon ends it with a failure
next_read_StopsOnError ==
    /\ pc = "next"
    /\ ReadLineReady(inbound, peerClosed)
    /\ LET line == read_line(inbound)
           step == next(line)
       IN  /\ consumed' = consumed \o line
           /\ inbound' = AfterLine(inbound)
           /\ ops' = Append(ops, "read")
           /\ CASE step.kind = "end" ->
                     /\ pc' = "done"
                     /\ exit' = Success
                     /\ UNCHANGED <<items, stdout>>
                [] step.kind = "skip" ->
                     UNCHANGED <<pc, exit, items, stdout>>
                [] OTHER ->
                     /\ items' = Append(items, step.item)
                     /\ stdout' = stdout \o WatchLines(step.item)
                     /\ IF step.item.ok /\ step.item.val.variant = "Error"
                        THEN /\ pc' = "done"
                             /\ exit' = Failure(<<<<Txt("Daemon Error: "),
                                                    Txt(step.item.val.message)>>>>)
                        ELSE UNCHANGED <<pc, exit>>
    /\ clock' = 0
    /\ UNCHANGED <<environment, socket_path, sendError, command, connectOutcome, outbound,
                   sent, peerClosed, readOutcome, result, ioErrors>>

\* read_line returns Ok(n) inside next: the loop ends the stream, skips a
\* blank line, or returns an item that main prints before calling next again
next_read ==
    /\ pc = "next"
    /\ ReadLineReady(inbound, peerClosed)
    /\ LET line == read_line(inbound)
           step == next(line)
       IN  /\ consumed' = consumed \o line
           /\ inbound' = AfterLine(inbound)
           /\ ops' = Append(ops, "read")
           /\ CASE step.kind = "end" ->
                     /\ pc' = "done"
                     /\ exit' = Success
                     /\ UNCHANGED <<items, stdout>>
                [] step.kind = "skip" ->
                     UNCHANGED <<pc, exit, items, stdout>>
                [] OTHER ->
                     /\ items' = Append(items, step.item)
                     /\ stdout' = stdout \o WatchLines(step.item)
                     /\ UNCHANGED <<pc, exit>>
    /\ clock' = 0
    /\ UNCHANGED <<environment, socket_path, sendError, command, connectOutcome, outbound, sent, peerClosed, readOutcome, result, ioErrors>>

\* A faulty stream: a read error ends it
next_io_error_EndsStream ==
    /\ pc = "next"
    /\ sent + ioErrors < MaxEvents
    /\ ioErrors' = ioErrors + 1
    /\ items' = Append(items, StreamIoError)
    /\ stdout' = stdout \o WatchLines(StreamIoError)
    /\ ops' = Append(ops, "read")
    /\ clock' = 0
    /\ pc' = "done"
    /\ exit' = Success
    /\ UNCHANGED <<environment, socket_path, sendError, command, connectOutcome, outbound,
                   inbound, consumed, sent, peerClosed, readOutcome, result>>

\* read_line returns Err(e) inside next: one failed item, and the loop of
\* main goes on
next_io_error ==
    /\ pc = "next"
    /\ sent + ioErrors < MaxEvents
    /\ ioErrors' = ioErrors + 1
    /\ items' = Append(items, StreamIoError)
    /\ stdout' = stdout \o WatchLines(StreamIoError)
    /\ ops' = Append(ops, "read")
    /\ clock' = 0
    /\ UNCHANGED <<environment, socket_path, sendError, command, connectOutcome, pc, outbound, inbound, consumed, sent, peerClosed,
                   readOutcome, result, exit>>

Next ==
    \/ main_get_socket_path
    \/ connect_to_daemon
    \/ write_all
    \/ flush
    \/ receive_response_read
    \/ receive_response_timeout
    \/ receive_response_io_error
    \/ next_read
    \/ next_io_error
    \/ DaemonSend
    \/ DaemonClose
    \/ Tick

Spec == Init /\ [][Next]_vars

\* get_socket_path alone, over every environment
ResolverSpec == ResolverInit /\ [][main_get_socket_path]_vars

\* the read and decoding of one response line, over every line of
\* ResponseLines
DecodeSpec == DecodeInit /\ [][receive_response_read]_vars

\* The steps of an invocation that makes one request/response call
CallNext ==
    \/ main_get_socket_path
    \/ connect_to_daemon
    \/ write_all
    \/ flush
    \/ receive_response_read
    \/ receive_response_timeout
    \/ receive_response_io_error
    \/ DaemonSend
    \/ DaemonClose
    \/ Tick

\* the client's task can take a step: it is not waiting for the daemon
ClientReady ==
    \/ pc \in {"resolve", "connect", "write", "flush"}
    \/ pc = "read" /\ (ReadLineReady(inbound, peerClosed) \/ clock = READ_TIMEOUT_SECS)
\* a step of the client's task: each one moves main on, and nothing else does
ClientStep == pc' # pc

\* The client's task is polled whenever it can take a step, and time passes
\* while a read is pending; nothing is assumed of the daemon, and a read
\* error need never happen. The first conjunct is weak fairness of the
\* client's steps, their enabling condition written out as ClientReady.
CallFairness ==
    /\ []<>(~ClientReady) \/ []<><<ClientStep>>_vars
    /\ WF_vars(Tick)

CallSpec == CallInit /\ [][CallNext]_vars /\ CallFairness

(***************************************************************************)
(* Properties.                                                             *)
(***************************************************************************)
RECURSIVE SplitLines(_)
\* the lines of a byte sequence, terminators kept; the last one may be
\* unterminated
SplitLines(bytes) ==
    IF bytes = <<>> THEN <<>>
    ELSE <<read_line(bytes)>> \o SplitLines(AfterLine(bytes))

IsBlank(line) == trim(trim_end_matches(line, NL)) = <<>>
Decodable(line) == from_str(trim_end_matches(line, NL)).ok
NonBlankLines(bytes) == SelectSeq(SplitLines(bytes), LAMBDA l : ~IsBlank(l))
\* the items of the event stream that came from lines (not from read errors)
LineItems == SelectSeq(items, LAMBDA it : it # StreamIoError)
Watching == command.name = "Watch"
\* the stream has returned end-of-stream: the only way Watch succeeds
StreamEnded == Watching /\ pc = "done" /\ exit = Success
ThreeFrames ==
    StateChangeFrame \o <<NL>> \o InvalidJson \o <<NL>> \o StateChangeFrame \o <<NL>>

\* C1: in subscription mode every non-blank line read yields exactly one
\* item, failed exactly when the line does not decode, and a malformed line
\* does not end the stream: the stream ends only at end of file. The frames
\* state_change, malformed, state_change yield success, failure, success.
C1_MalformedLineIsOneFailedItem ==
    Watching =>
        /\ Len(LineItems) = Len(NonBlankLines(consumed))
        /\ \A i \in 1..Len(LineItems) :
               LineItems[i].ok = Decodable(NonBlankLines(consumed)[i])
        /\ StreamEnded => peerClosed /\ inbound = <<>>
        /\ (consumed = ThreeFrames /\ ioErrors = 0) =>
               /\ Len(items) = 3
               /\ items[1].ok /\ ~items[2].ok /\ items[3].ok
               /\ items[1].val.variant = "StateChange"
               /\ Contains(items[2].err, InvalidJson)

C1_Witness ==
    /\ Watching /\ consumed = ThreeFrames /\ Len(items) = 3
    /\ ~items[2].ok /\ items[3].ok
    /\ StreamEnded

Silent == sent = 0 /\ ~peerClosed
TimeoutText(msg) == Contains(msg, <<Txt("timeout")>>) \/ Contains(msg, <<Txt("Timeout")>>)

\* C2: when the daemon accepts and sends nothing (and the read meets no I/O
\* error), the call ends only by the timer, after READ_TIMEOUT_SECS = 5
\* seconds and not before, with an error that mentions a timeout and the
\* 5 seconds; it returns no response, and the wait is bounded: at 5 seconds
\* the timer is ready to fire.
C2_SilentDaemonTimesOut ==
    /\ (pc = "done" /\ readOutcome \notin {"none", "ioerror"} /\ Silent) =>
           /\ readOutcome = "timeout"
           /\ clock = 5
           /\ ~result[1].ok
           /\ TimeoutText(result[1].err)
           /\ Contains(result[1].err, <<Txt("5"), Txt(" seconds while waiting for response.")>>)
              \/ Contains(result[1].err, <<Txt("5"), Txt(" seconds reading response line.")>>)
           /\ exit.code = "failure"
    /\ (pc = "read" /\ Silent) =>
           /\ clock <= 5
           /\ clock < 5 => ~ENABLED receive_response_timeout
           /\ clock = 5 => ENABLED receive_response_timeout

C2_Witness ==
    /\ pc = "done" /\ readOutcome = "timeout" /\ Silent /\ clock = 5
    /\ ~result[1].ok

\* the error receive_response returns when the timer fires with no byte read
TimeoutCaseError == NoResponse(<<>>)
\* the peer closed with zero bytes sent and the read saw the end of file
ClosedWithoutBytes == readOutcome = "eof" /\ sent = 0 /\ consumed = <<>>
\* once the end of file is there the read is no longer pending: no time
\* passes and the timer cannot fire before the call returns
EofIsPrompt ==
    (pc = "read" /\ peerClosed) =>
        /\ ~ENABLED Tick
        /\ ~ENABLED receive_response_timeout

\* C3 as claimed: after a close with zero bytes the call fails promptly and
\* with an error that differs in content from the error of the timeout case.
C3_Original_EofErrorDiffersFromTimeout ==
    /\ EofIsPrompt
    /\ ClosedWithoutBytes => (~result[1].ok /\ result[1] # TimeoutCaseError)

\* C3 as amended: after a close with zero bytes the call fails promptly,
\* without the timeout having to elapse, and the error it returns is the
\* same combined "Connection closed by daemon or timeout after 5 seconds"
\* error as in the timeout case: the two differ by latency only.
C3_EofFailsPromptlyWithTimeoutError ==
    /\ EofIsPrompt
    /\ ClosedWithoutBytes =>
           /\ result = Some(TimeoutCaseError)
           /\ ~result[1].ok
           /\ Contains(result[1].err, <<Txt("Connection closed by daemon or "), Txt("timeout")>>)
           /\ exit.code = "failure"
           /\ pc = "done"

C3_Witness ==
    /\ ClosedWithoutBytes /\ pc = "done" /\ clock < READ_TIMEOUT_SECS
    /\ result = Some(TimeoutCaseError)

\* the call has read one line, not empty once trimmed, that does not decode
MalformedFirstLine ==
    /\ readOutcome = "line"
    /\ trim_end_matches(consumed, NL) # <<>>
    /\ ~Decodable(consumed)

\* C4: when the first line read is not empty and fails JSON decoding, the
\* call fails with the "Failed to deserialize daemon response" error whose
\* text contains the whole offending line; no response is returned and no
\* further line is read.
C4_MalformedResponseCarriesRawLine ==
    MalformedFirstLine =>
        /\ ~result[1].ok
        /\ Contains(result[1].err,
                    <<Txt("Failed to deserialize daemon response '")>>
                    \o trim_end_matches(consumed, NL))
        /\ exit.code = "failure"
        /\ pc = "done"
        /\ consumed = read_line(consumed)
        /\ Len(SelectSeq(ops, LAMBDA o : o = "read")) = 1

C4_Witness ==
    /\ MalformedFirstLine
    /\ consumed = InvalidJson \o <<NL>>
    /\ inbound = AckFrame \o <<NL>>
    /\ ~result[1].ok

\* every byte the daemon has sent, read or not
Received == consumed \o inbound
\* the call read a line and the daemon's bytes start with an empty line
\* followed by a whole valid frame
BlankThenValidFrame ==
    /\ readOutcome = "line"
    /\ Len(SplitLines(Received)) >= 2
    /\ SplitLines(Received)[1] = <<NL>>
    /\ HasNewline(SplitLines(Received)[2])
    /\ Decodable(SplitLines(Received)[2])

NotRunning == connectOutcome \in {"NotFound", "ConnectionRefused"}
ConnectHasFailed == connectOutcome \notin {"none", "Connected"}
InactiveLine == <<Txt("Inactive")>>

\* C6: when the connect fails with NotFound or ConnectionRefused, Status
\* prints exactly "Inactive", writes nothing to the socket and exits with
\* success, and every other command ends in a failure with nothing printed.
C6_StatusOfAbsentDaemonIsInactive ==
    NotRunning =>
        /\ pc = "done"
        /\ ops = <<"connect">>
        /\ outbound = <<>>
        /\ IF command.name = "Status"
           THEN stdout = <<InactiveLine>> /\ exit = Success
           ELSE stdout = <<>> /\ exit.code = "failure"

C6_Witness ==
    /\ command.name = "Status" /\ connectOutcome = "NotFound"
    /\ stdout = <<InactiveLine>> /\ exit = Success /\ outbound = <<>>

\* C7: a failed connect ends in success, and "Inactive" is printed, only
\* for Status and only for the kinds NotFound and ConnectionRefused; Status
\* with another kind (PermissionDenied) ends in a failure.
C7_InactiveOnlyForStatusAndThoseKinds ==
    /\ (ConnectHasFailed /\ exit = Success) => (command.name = "Status" /\ NotRunning)
    /\ (\E i \in 1..Len(stdout) : stdout[i] = InactiveLine) =>
           (command.name = "Status" /\ NotRunning)
    /\ (ConnectHasFailed /\ ~NotRunning) =>
           (pc = "done" /\ exit.code = "failure" /\ stdout = <<>>)

C7_Witness ==
    /\ command.name = "Status" /\ connectOutcome = "PermissionDenied"
    /\ pc = "done" /\ exit.code = "failure" /\ stdout = <<>>

\* the call read a whole, well-formed Error frame
ReadErrorFrame == readOutcome = "line" /\ consumed = ErrorFrame \o <<NL>>

\* C8: a well-formed Error{message} frame is returned by the call as a
\* decoded response with the daemon's message unchanged, not as a failure
\* of the call, and main then fails with "Daemon Error: " and that message.
C8_ServiceErrorIsPropagated ==
    /\ ReadErrorFrame =>
           result = Some(Ok([variant |-> "Error", message |-> "Invalid command"]))
    /\ (result # None /\ result[1].ok /\ result[1].val.variant = "Error") =>
           /\ pc = "done"
           /\ exit = Failure(<<<<Txt("Daemon Error: "), Txt(result[1].val.message)>>>>)
           /\ stdout = <<>>

C8_Witness ==
    /\ ReadErrorFrame /\ command.name = "Status"
    /\ exit = Failure(<<<<Txt("Daemon Error: "), Txt("Invalid command")>>>>)

RequestMode == ~Watching
CommandFrame == command_json_with_newline(DaemonCommandOf(command))

\* C9: in a request/response call the operations on the connection are, in
\* this order, one write, one flush and one read: when the read begins the
\* whole command frame has been written and flushed, nothing is written
\* afterwards, and there is never a second write or a second read.
C9_CallIsHalfDuplex ==
    RequestMode =>
        /\ IsPrefix(ops, <<"connect", "write", "flush", "read">>)
        /\ IsPrefix(outbound, CommandFrame)
        /\ Count(ops, "write") = 0 => outbound = <<>>
        /\ (pc = "read" \/ readOutcome # "none") =>
               /\ outbound = CommandFrame
               /\ IsPrefix(<<"connect", "write", "flush">>, ops)
        /\ readOutcome # "none" => pc = "done"

C9_Witness ==
    /\ RequestMode /\ ops = <<"connect", "write", "flush", "read">>
    /\ outbound = CommandFrame /\ result # None /\ result[1].ok

SubscribeLine == <<P("{"), S("command"), P(":"), S("subscribe"), P("}"), NL>>

\* C10: in Watch mode the client writes one frame, the Subscribe command:
\* the operations on the connection are one write, one flush and then reads
\* only; no response to Subscribe is awaited (receive_response never runs,
\* and nothing is read before the stream starts), so that the first line
\* the daemon sends is the first item of the stream.
C10_WatchWritesSubscribeOnce ==
    Watching =>
        /\ IsPrefix(outbound, SubscribeLine)
        /\ IsPrefix(SubSeq(ops, 1, IF Len(ops) < 3 THEN Len(ops) ELSE 3),
                    <<"connect", "write", "flush">>)
        /\ \A i \in 4..Len(ops) : ops[i] = "read"
        /\ (pc = "next" \/ Count(ops, "read") > 0) => outbound = SubscribeLine
        /\ readOutcome = "none" /\ result = None
        /\ Count(ops, "read") = 0 => (consumed = <<>> /\ items = <<>>)
        /\ Len(LineItems) = Len(NonBlankLines(consumed))

C10_Witness ==
    /\ Watching /\ pc = "next" /\ outbound = SubscribeLine
    /\ Len(items) >= 2 /\ Count(ops, "read") >= 2 /\ Count(ops, "write") = 1

\* the reads of the event stream that returned a line or an error
StreamReads == Len(SplitLines(consumed)) + ioErrors
\* the event stream has been read at least once and main has returned
WatchReturned == Watching /\ pc = "done" /\ Count(ops, "read") > 0

\* C11: in subscription mode the read that meets the end of file returns
\* end-of-stream and no item: every item comes from a line or from a read
\* error, the one read beyond those is the end of the stream, and Watch then
\* returns success.
C11_EofEndsStreamCleanly ==
    Watching =>
        /\ Len(items) = Len(NonBlankLines(consumed)) + ioErrors
        /\ Count(ops, "read") = StreamReads + (IF WatchReturned THEN 1 ELSE 0)
        /\ WatchReturned => (exit = Success /\ peerClosed /\ inbound = <<>>)

C11_Witness ==
    /\ WatchReturned /\ exit = Success /\ peerClosed
    /\ Len(items) = 2 /\ ioErrors = 0
    /\ Count(ops, "read") = 3

\* a line of nothing but whitespace and the terminator
IsBlankLine(line) == \A i \in 1..Len(line) : line[i].t \in {"ws", "nl"}
VisibleLines(bytes) == SelectSeq(SplitLines(bytes), LAMBDA l : ~IsBlankLine(l))
\* the item a line that is not blank stands for
ItemOfLine(line) ==
    LET text == trim_end_matches(line, NL) IN
    IF from_str(text).ok THEN from_str(text)
    ELSE Err(<<Txt("Failed to deserialize: ")>> \o from_str(text).err
             \o <<Txt(" (Line: ")>> \o text \o <<Txt(")")>>)
BlankBetweenFrames == <<NL>> \o StateChangeFrame \o <<NL>> \o <<WS, NL>>

\* C12: in subscription mode blank lines (empty, or whitespace only) are
\* skipped: the items are exactly the items of the lines that are not
\* blank, in order, so a blank line gives no item, and the stream does not
\* end at a blank line (it ends only once everything is read and the peer
\* has closed).
C12_BlankLinesAreSkipped ==
    Watching =>
        /\ Len(LineItems) = Len(VisibleLines(consumed))
        /\ \A i \in 1..Len(LineItems) : LineItems[i] = ItemOfLine(VisibleLines(consumed)[i])
        /\ WatchReturned => (peerClosed /\ inbound = <<>>)
        /\ (consumed = BlankBetweenFrames /\ ioErrors = 0) => (Len(items) = 1 /\ items[1].ok)

C12_Witness ==
    /\ Watching /\ consumed = BlankBetweenFrames /\ ~peerClosed
    /\ Len(items) = 1 /\ items[1].ok /\ pc = "next"

\* C13: in subscription mode no read is under the timeout: while no line,
\* end of file or error has arrived the stream stays pending, past
\* READ_TIMEOUT_SECS too; the timer never fires, no item is a timeout
\* failure, and the stream does not end before the peer has closed.
C13_StreamReadHasNoTimeout ==
    Watching =>
        /\ readOutcome = "none" /\ result = None
        /\ \A i \in 1..Len(items) : items[i].ok \/ ~TimeoutText(items[i].err)
        /\ (pc = "next" /\ ~ReadLineReady(inbound, peerClosed)) =>
               ~ENABLED receive_response_timeout
        /\ WatchReturned => peerClosed
        /\ exit.code = "failure" => (sendError # "none" \/ ConnectHasFailed)

C13_Witness ==
    /\ Watching /\ pc = "next" /\ clock > READ_TIMEOUT_SECS
    /\ ~peerClosed /\ inbound = <<>> /\ exit = Running

\* C14: on every path there is exactly one connect attempt: none before
\* main reaches it, one ever after, whatever the command and the outcome; a
\* failed connect ends the invocation.
C14_ConnectAttemptedOnce ==
    /\ Count(ops, "connect") = (IF pc \in {"resolve", "connect"} THEN 0 ELSE 1)
    /\ (connectOutcome = "none") = (pc \in {"resolve", "connect"})
    /\ ConnectHasFailed => (pc = "done" /\ ops = <<"connect">>)

C14_Witness ==
    /\ command.name = "Start" /\ connectOutcome = "ConnectionRefused"
    /\ pc = "done" /\ Count(ops, "connect") = 1

CommunicationError == <<Txt("Communication Error")>>
\* the call has failed: the frame could not be sent, or the read failed
CallFailed == sendError # "none" \/ (result # None /\ ~result[1].ok)

\* C15: a request/response call writes, flushes and reads at most once;
\* once it has failed (write or flush error, timeout, end of file, read
\* error, malformed or empty line) main has returned, nothing more is done
\* on the connection, and the error of the call is what main returns, under
\* the context "Communication Error".
C15_NoRetryAfterFailure ==
    RequestMode =>
        /\ Count(ops, "write") <= 1 /\ Count(ops, "flush") <= 1 /\ Count(ops, "read") <= 1
        /\ IsPrefix(outbound, CommandFrame)
        /\ CallFailed =>
               /\ pc = "done"
               /\ exit.code = "failure"
               /\ Len(exit.error) = 2
               /\ exit.error[1] = CommunicationError
        /\ (result # None /\ ~result[1].ok) => exit.error[2] = result[1].err
        /\ sendError = "write" =>
               /\ ops = <<"connect", "write">>
               /\ exit.error[2] = <<Txt("Failed to write command to socket: "), Txt("io error")>>
        /\ sendError = "flush" =>
               /\ ops = <<"connect", "write", "flush">>
               /\ exit.error[2] = <<Txt("Failed to flush socket: "), Txt("io error")>>

C15_Witness ==
    /\ RequestMode /\ readOutcome = "ioerror" /\ pc = "done"
    /\ ops = <<"connect", "write", "flush", "read">>
    /\ exit.error = <<CommunicationError, ReadFailed.err>>

\* C16: a failed write_all or flush ends the call there: nothing is read,
\* send_command returns no response and no event stream is started, and
\* main returns the failure (under "Failed to send subscribe command" for
\* Watch, "Communication Error" otherwise).
C16_SendFailureIsFatal ==
    sendError # "none" =>
        /\ pc = "done"
        /\ Count(ops, "read") = 0
        /\ consumed = <<>> /\ result = None /\ items = <<>> /\ readOutcome = "none"
        /\ exit.code = "failure"
        /\ exit.error[1] = (IF Watching THEN <<Txt("Failed to send subscribe command")>>
                            ELSE CommunicationError)
        /\ exit.error[2][1] = (IF sendError = "write"
                               THEN Txt("Failed to write command to socket: ")
                               ELSE Txt("Failed to flush socket: "))

C16_Witness ==
    /\ Watching /\ sendError = "flush" /\ pc = "done" /\ inbound # <<>>
    /\ exit.code = "failure" /\ items = <<>>

\* C17: connect_to_daemon returns the outcome of the connect call as it is:
\* the error kind main sees is the kind the system reported, and for a
\* socket path where no file exists that kind is NotFound.
C17_ConnectErrorIsUnmodified ==
    connectOutcome # "none" =>
        /\ connectOutcome = UnixStreamConnect(socketFile)
        /\ (connectOutcome = "Connected") = (socketFile = "listening")
        /\ socketFile = "absent" => (connectOutcome = "NotFound" /\ pc = "done")

C17_Witness ==
    /\ socketFile = "absent" /\ connectOutcome = "NotFound"
    /\ command.name = "Stop" /\ exit.code = "failure"

FallbackOf1000 ==
    <<Txt("/tmp/handsfree-"), Txt("1"), Txt("0"), Txt("0"), Txt("0"), Txt(".sock")>>
Resolved == pc # "resolve"

\* C18: get_socket_path never fails and its path is not empty, in every
\* environment; when XDG_RUNTIME_DIR is unset, or set while the directory
\* handsfree cannot be made under it, the path is /tmp/handsfree-<uid>.sock
\* with the uid in decimal.
C18_ResolverIsInfallible ==
    Resolved =>
        /\ pc = "connect" /\ exit = Running
        /\ socket_path # None /\ socket_path[1] # <<>>
        /\ (xdgRuntimeDir = None \/ handsfreeEntry # "dir") =>
               /\ socket_path[1] = <<Txt("/tmp/handsfree-")>> \o Decimal(uid) \o <<Txt(".sock")>>
               /\ uid = 1000 => socket_path[1] = FallbackOf1000
               /\ uid = 0 => socket_path[1] = <<Txt("/tmp/handsfree-"), Txt("0"), Txt(".sock")>>

C18_Witness ==
    /\ Resolved /\ xdgRuntimeDir = Some(RunUser) /\ handsfreeEntry = "file"
    /\ uid = 1000 /\ socket_path = Some(FallbackOf1000)

\* the names of a path, and whether it starts at the root
Names(path) == SelectSeq(path, LAMBDA t : t # Sep)
Rooted(path) == path # <<>> /\ path[1] = Sep
SamePath(a, b) == Names(a) = Names(b) /\ Rooted(a) = Rooted(b)

\* C19: when XDG_RUNTIME_DIR is a path P (not the empty string) under
\* which the directory handsfree exists or can be made, the path returned
\* is P/handsfree/daemon.sock, never the fallback under /tmp, and the
\* directory P/handsfree exists afterwards.
C19_RuntimeDirPath ==
    (Resolved /\ xdgRuntimeDir # None) =>
        /\ (runtimeDirWritable /\ handsfreeEntry # "file") => handsfreeEntry = "dir"
        /\ (handsfreeEntry = "dir" /\ xdgRuntimeDir[1] # <<>>) =>
               /\ SamePath(socket_path[1],
                           xdgRuntimeDir[1] \o <<Sep, Txt("handsfree"), Sep, Txt("daemon.sock")>>)
               /\ socket_path[1][1] # Txt("/tmp/handsfree-")
        /\ (handsfreeEntry = "dir" /\ xdgRuntimeDir = Some(RunUser)) =>
               socket_path = Some(<<Sep, Txt("run"), Sep, Txt("user"), Sep, Txt("1000"), Sep,
                                    Txt("handsfree"), Sep, Txt("daemon.sock")>>)
        /\ (handsfreeEntry = "dir" /\ xdgRuntimeDir = Some(TmpXdgSlash)) =>
               socket_path = Some(<<Sep, Txt("tmp"), Sep, Txt("xdg"), Sep, Txt("handsfree"), Sep,
                                    Txt("daemon.sock")>>)

C19_Witness ==
    /\ Resolved /\ xdgRuntimeDir = Some(TmpXdgSlash) /\ handsfreeEntry = "dir"
    /\ runtimeDirWritable
    /\ socket_path = Some(<<Sep, Txt("tmp"), Sep, Txt("xdg"), Sep, Txt("handsfree"), Sep,
                            Txt("daemon.sock")>>)

\* the JSON line of a command with no field, and of one with an output mode
WireOf(tag) == <<P("{"), S("command"), P(":"), S(tag), P("}")>>
WireWithMode(tag, mode) ==
    <<P("{"), S("command"), P(":"), S(tag), P(","), S("output_mode"), P(":"), S(mode), P("}")>>
\* the wire format of each command
ExpectedWire ==
    CASE command = [name |-> "Start", output |-> "Keyboard"] -> WireWithMode("start", "keyboard")
      [] command = [name |-> "Start", output |-> "Clipboard"] -> WireWithMode("start", "clipboard")
      [] command = [name |-> "Toggle", output |-> None] -> WireOf("toggle")
      [] command = [name |-> "Toggle", output |-> Some("Keyboard")] ->
             WireWithMode("toggle", "keyboard")
      [] command = [name |-> "Toggle", output |-> Some("Clipboard")] ->
             WireWithMode("toggle", "clipboard")
      [] command = [name |-> "Stop"] -> WireOf("stop")
      [] command = [name |-> "Status"] -> WireOf("status")
      [] command = [name |-> "Shutdown"] -> WireOf("shutdown")
      [] command = [name |-> "Watch"] -> WireOf("subscribe")
FrameWritten == Count(ops, "write") = 1 /\ sendError # "write"

\* C20: for every command, once the write has succeeded the bytes written
\* are the JSON line of the command followed by exactly one newline, with
\* no other newline among them; nothing else is ever written.
C20_FrameIsJsonLinePlusNewline ==
    /\ FrameWritten =>
           /\ outbound = ExpectedWire \o <<NL>>
           /\ Count(outbound, NL) = 1
    /\ IsPrefix(outbound, ExpectedWire \o <<NL>>)

C20_Witness ==
    /\ command = [name |-> "Start", output |-> "Clipboard"] /\ FrameWritten
    /\ outbound = WireWithMode("start", "clipboard") \o <<NL>>
    /\ pc = "done" /\ exit = Success

\* the value of the member last_error as an Option
OptionOf(le) == IF le = Null THEN None ELSE Some(le.v)
StatusResponse(st, le) ==
    Ok([variant |-> "Status", status |-> [state |-> st, last_error |-> OptionOf(le)]])
\* receive_response has read this line and returned
HasRead(line) == consumed = line \o <<NL>> /\ result # None

\* C21: the line {"response_type":"ack"} decodes to Ack, and a status line
\* whose fields state and last_error are nested in a member status decodes
\* to Status with that state and with last_error None for null and Some for
\* a string. (The decoder of protocol.rs refuses that line: this formula is
\* violated.)
C21_Original_NestedStatusDecodes ==
    /\ HasRead(AckFrame) => result = Some(Ok([variant |-> "Ack"]))
    /\ \A st \in StatusStates, le \in LastErrors :
           HasRead(NestedStatusLine("status", st, le)) => result = Some(StatusResponse(st, le))

\* What protocol.rs decodes: the status whose fields stand beside the tag;
\* the nested line fails for its missing field state, and the Status
\* command then fails with a communication error.
C21_StatusIsDecodedFlat ==
    \A st \in StatusStates, le \in LastErrors :
        /\ HasRead(FlatStatusLine(st, le)) => result = Some(StatusResponse(st, le))
        /\ HasRead(NestedStatusLine("status", st, le)) =>
               /\ ~result[1].ok
               /\ Contains(result[1].err, <<Txt("missing field state")>>)
               /\ exit.code = "failure"

C21_Witness ==
    /\ command.name = "Status"
    /\ HasRead(NestedStatusLine("status", "idle", Null))
    /\ ~result[1].ok /\ exit.code = "failure" /\ stdout = <<>>

\* C22: every invocation other than Watch that has connected terminates,
\* whatever the daemon does afterwards (silence, close, garbage, a partial
\* line, a valid frame): the write and the flush each take one step, and the
\* one read ends with a line, the end of file, an error or the timeout.
C22_CallTerminates == (pc = "write") ~> (pc = "done")

C22_Witness ==
    /\ RequestMode /\ pc = "done" /\ readOutcome = "timeout"
    /\ inbound = Fragment /\ ~peerClosed /\ clock = READ_TIMEOUT_SECS
    /\ exit.code = "failure"

\* all the bytes the daemon has sent: those read and those still unread
Sent == consumed \o inbound
ThreeKinds == StateChangeFrame \o <<NL>> \o ErrorFrame \o <<NL>> \o AckFrame \o <<NL>>

\* what a step has read
NewlyRead == SubSeq(consumed', Len(consumed) + 1, Len(consumed'))
\* one step of a Watch invocation keeps what was sent, in order: the bytes
\* change only by what the daemon appends, a read takes the first line
\* waiting, and that line gives the next item unless it is blank
C23_Step ==
    Watching =>
        /\ IsPrefix(Sent, Sent')
        /\ SubSeq(Sent', Len(Sent) + 1, Len(Sent')) \in DaemonChunks \cup {<<>>}
        /\ IsPrefix(consumed, consumed')
        /\ consumed' # consumed => NewlyRead = read_line(inbound)
        /\ Count(ops', "read") = 0 => consumed' = <<>>
        /\ LineItems' = IF consumed' # consumed /\ ~IsBlankLine(NewlyRead)
                        THEN Append(LineItems, ItemOfLine(NewlyRead))
                        ELSE LineItems

\* C23: the event stream loses, repeats and reorders nothing: the bytes
\* read and the bytes waiting are together always what the daemon sent, in
\* order (send_command_only reads none of them, whenever they came); each
\* read takes the first line waiting, and each line that is not blank adds
\* its item after the items before it, so that the i-th item from a line is
\* the item of the i-th line sent that is not blank.
C23_StreamKeepsOrder == [][C23_Step]_vars

C23_Witness ==
    /\ Watching /\ consumed = ThreeKinds /\ inbound = <<>> /\ pc = "next"
    /\ Len(items) = 3
    /\ items[1].ok /\ items[1].val.variant = "StateChange"
    /\ items[2].ok /\ items[2].val.variant = "Error"
    /\ items[3].ok /\ items[3].val.variant = "Ack"

ErrorThenGarbageThenAck == ErrorFrame \o <<NL>> \o InvalidJson \o <<NL>> \o AckFrame \o <<NL>>

\* C24: the Watch loop ends only at the end of the stream: when main has
\* returned from the loop the last read met the end of file and the exit is
\* a success; an Error response, a failed item and an unexpected response
\* are items like the others, after which the next line is read, and none
\* makes the invocation fail.
C24_WatchEndsOnlyAtEndOfStream ==
    Watching =>
        /\ WatchReturned =>
               /\ exit = Success
               /\ peerClosed /\ inbound = <<>>
               /\ Count(ops, "read") = StreamReads + 1
        /\ (pc = "done" /\ exit.code = "failure") => Count(ops, "read") = 0
        /\ (Count(ops, "read") > 0 /\ ~(peerClosed /\ inbound = <<>>)) =>
               (pc = "next" /\ exit = Running)
        /\ Len(items) = Len(VisibleLines(consumed)) + ioErrors

C24_Witness ==
    /\ Watching /\ consumed = ErrorThenGarbageThenAck /\ pc = "next" /\ exit = Running
    /\ Len(items) = 3
    /\ items[1] = Ok([variant |-> "Error", message |-> "Invalid command"])
    /\ ~items[2].ok
    /\ items[3] = Ok([variant |-> "Ack"])

\* C25: a read error in the event stream gives one failed item and does
\* not end the stream: there are as many IO Error items as failed reads,
\* the stream ends only at the end of file, and while every read has failed
\* the loop is still running.
C25_ReadErrorDoesNotEndStream ==
    Watching =>
        /\ Count(items, StreamIoError) = ioErrors
        /\ ~StreamIoError.ok /\ IsPrefix(<<Txt("IO Error: ")>>, StreamIoError.err)
        /\ (Count(ops, "read") > 0 /\ Count(ops, "read") = ioErrors) =>
               (pc = "next" /\ exit = Running)
        /\ (ioErrors > 0 /\ pc = "done") =>
               (peerClosed /\ inbound = <<>> /\ Count(ops, "read") = StreamReads + 1)

C25_Witness ==
    /\ Watching /\ ioErrors = MaxEvents /\ pc = "next" /\ exit = Running
    /\ Len(items) = MaxEvents /\ Count(ops, "read") = MaxEvents
    /\ consumed = <<>>

CatchAllCommand == command.name \in {"Start", "Stop", "Toggle", "Shutdown"}
\* the request/response call has returned to main
Returned == pc = "done" /\ connectOutcome = "Connected"
Decoded(variants) == result # None /\ result[1].ok /\ result[1].val.variant \in variants

\* C26: for Start, Stop, Toggle and Shutdown, once connected, the exit is a
\* failure exactly when the call failed or the response is Error; Ack,
\* Status and any other response end in success, and OK is printed exactly
\* for Ack and Status (nothing is printed otherwise).
C26_ExitOfCatchAllArm ==
    (CatchAllCommand /\ Returned) =>
        /\ (exit.code = "failure") = (CallFailed \/ Decoded({"Error"}))
        /\ (exit.code = "success") = Decoded({"Ack", "Status", "StateChange"})
        /\ (stdout = <<<<Txt("OK")>>>>) = Decoded({"Ack", "Status"})
        /\ ~Decoded({"Ack", "Status"}) => stdout = <<>>
        /\ Decoded({"Error"}) =>
               exit.error = <<<<Txt("Daemon Error: "), Txt(result[1].val.message)>>>>

C26_Witness ==
    /\ command.name = "Stop" /\ Returned
    /\ Decoded({"StateChange"}) /\ exit = Success /\ stdout = <<>>

====
